---- MODULE Spec2Model ----
(***************************************************************************)
(* node-license-spelunker: the recursive dependency walker                 *)
(* (exploreDependencies), its completion counter (recursiveLevel), the     *)
(* package filter (isPackage) and the license resolver (findLicenseText).  *)
(*                                                                         *)
(* The repository holds two builds of the same program: src/index.js and   *)
(* src/unnamed/part_000.  They differ, for what is modelled here, in two   *)
(* places of findLicenseText: part_000 normalises line endings with        *)
(* convertNewLines and index.js does not, and on a failed readFile         *)
(* part_000 calls callback(err, license) where index.js evaluates          *)
(* (err, license) and calls nothing.  The variable build says which one    *)
(* runs.                                                                   *)
(*                                                                         *)
(* A path is the sequence of its components: <<"home", "app">> is          *)
(* /home/app (POSIX separators).  A text is a sequence of tokens: a token  *)
(* is one character that matters to the code ("\n", "\r", "\t", "#", " ")  *)
(* or a run of other characters ("MIT", "Apache-2.0"); the words of        *)
(* LicenseWords are the runs that /license/i matches exactly.              *)
(*                                                                         *)
(* Node runs every callback to completion on one thread: each action below *)
(* is one callback, with every synchronous call it makes.                  *)
(***************************************************************************)
EXTENDS Integers, Sequences, FiniteSets, TLC

VARIABLES
  build,               \* "index.js" or "part_000"
  desiredLineEndings,  \* "lf", "crlf" or "cr" (lower-cased)
  rootProjectPath,     \* path of the root package
  disk,                \* the file system, unchanged during a run
  status,              \* "init", "running" or "crashed" (uncaught exception)
  visits,              \* one record per call of exploreDependencies
  modules,             \* the modules array
  recursiveLevel,      \* the outstanding-operation counter
  reports              \* one entry per execution of the report block

vars == <<build, desiredLineEndings, rootProjectPath, disk, status, visits,
          modules, recursiveLevel, reports>>

----------------------------------------------------------------------------
(* Bounds of the model.                                                    *)

\* entries of a node_modules directory
MaxEntries == 2
\* candidate files present in the package of a license-resolution disk
MaxFiles == 2

----------------------------------------------------------------------------
(* Texts.                                                                  *)

LicenseWords == {"License", "LICENSE", "license"}

Markers == {"#", " "}

Blanks == {" ", "\t"}

\* the candidate file names, in the order of possibleLicensePaths
candidateNames ==
  << "LICENSE", "LICENCE", "LICENSE.md", "LICENSE.txt", "LICENSE-MIT",
     "LICENSE-BSD", "MIT-LICENSE.txt", "Readme.md", "README.md",
     "README.markdown" >>

possibleLicensePaths(projectPath) ==
  [i \in 1..Len(candidateNames) |-> Append(projectPath, candidateNames[i])]

unlicense == <<"NO LICENSE FILE">>

\* names of the model whose lower-cased form starts with "readme"
ReadmePrefixed == {"Readme.md", "README.md", "README.markdown", "readme-x"}

\* licensePath.toLowerCase().indexOf('/readme') > 0 : the first component
\* starting with "readme" is not the first component of the path (whose
\* "/" is at index 0)
isAReadme(licensePath) ==
  LET hits == {i \in 1..Len(licensePath) : licensePath[i] \in ReadmePrefixed}
  IN  hits # {} /\ ~(1 \in hits)

\* the newline the converter writes
NewLine(style) ==
  CASE style = "lf" -> <<"\n">>
    [] style = "crlf" -> <<"\r", "\n">>
    [] OTHER -> <<"\r">>

RECURSIVE convertFrom(_, _, _)
convertFrom(text, i, style) ==
  IF i > Len(text) THEN <<>>
  ELSE IF text[i] = "\r" /\ i < Len(text) /\ text[i + 1] = "\n"
       THEN NewLine(style) \o convertFrom(text, i + 2, style)
  ELSE IF text[i] \in {"\r", "\n"}
       THEN NewLine(style) \o convertFrom(text, i + 1, style)
  ELSE <<text[i]>> \o convertFrom(text, i + 1, style)

\* require("convert-newline")(style).string(): every \r\n, \r and \n becomes
\* the newline of the style
convertNewLines(text, style) == convertFrom(text, 1, style)

\* text.match(/\n[# ]*license[ \t]*\n/i) matches at token i
MatchesAt(text, i) ==
  /\ text[i] = "\n"
  /\ \E j \in (i + 1)..Len(text) :
       /\ text[j] \in LicenseWords
       /\ \A m \in (i + 1)..(j - 1) : text[m] \in Markers
       /\ \E k \in (j + 1)..Len(text) :
            /\ text[k] = "\n"
            /\ \A m \in (j + 1)..(k - 1) : text[m] \in Blanks

\* licenseExcerpt.index, 0 when the match is null
licenseExcerptIndex(text) ==
  LET at == {i \in 1..Len(text) : MatchesAt(text, i)}
  IN  IF at = {} THEN 0 ELSE CHOOSE i \in at : \A j \in at : i <= j

\* licenseExcerpt.input.substring(licenseExcerpt.index)
substringFrom(text, i) == SubSeq(text, i, Len(text))

----------------------------------------------------------------------------
(* The file system.  disk.dirs maps each directory that exists to          *)
(*   manifest : its package.json: st is "ok", "bad" (present, not          *)
(*              parseable) or "missing";                                   *)
(*   files    : for each candidate name, st "absent", "unreadable"         *)
(*              (exists, readFile fails) or "ok" with its text;            *)
(*   nm       : its node_modules: st "none", "unlistable" (exists, readdir *)
(*              fails) or "ok" with the names readdir returns.             *)
(* disk.plain is the set of paths that are files; any other path does not  *)
(* exist.                                                                  *)

Absent == [st |-> "absent", text |-> <<>>]

Unreadable == [st |-> "unreadable", text |-> <<>>]

FileOf(text) == [st |-> "ok", text |-> text]

NoFiles == [n \in {candidateNames[i] : i \in 1..Len(candidateNames)} |-> Absent]

NoManifest == [st |-> "missing", name |-> "", version |-> "", license |-> "undefined"]

ManifestOf(name, license) ==
  [st |-> "ok", name |-> name, version |-> "1.0.0", license |-> license]

NoNodeModules == [st |-> "none", list |-> <<>>]

Unlistable == [st |-> "unlistable", list |-> <<>>]

Listing(names) == [st |-> "ok", list |-> names]

IsDir(p) == p \in DOMAIN disk.dirs

\* what require(path.join(p, 'package.json')) loads
ManifestAt(p) == IF IsDir(p) THEN disk.dirs[p].manifest ELSE NoManifest

\* the file a candidate path names
FileAt(licensePath) ==
  LET d == SubSeq(licensePath, 1, Len(licensePath) - 1)
      n == licensePath[Len(licensePath)]
  IN  IF IsDir(d) THEN disk.dirs[d].files[n] ELSE Absent

NodeModulesOf(p) == IF IsDir(p) THEN disk.dirs[p].nm ELSE NoNodeModules

\* fs.stat(dirPath): "dir", "file" or "error"
statOf(p) ==
  IF IsDir(p) THEN "dir" ELSE IF p \in disk.plain THEN "file" ELSE "error"

\* fs.access(packageManifest, F_OK) succeeds
accessible(p) == ManifestAt(p).st # "missing"

----------------------------------------------------------------------------
(* The program state as one record, so that a callback and the calls it    *)
(* makes compose.                                                          *)

Cur ==
  [status |-> status, visits |-> visits, modules |-> modules,
   recursiveLevel |-> recursiveLevel, reports |-> reports]

Commit(s) ==
  /\ status' = s.status
  /\ visits' = s.visits
  /\ modules' = s.modules
  /\ recursiveLevel' = s.recursiveLevel
  /\ reports' = s.reports
  /\ UNCHANGED <<build, desiredLineEndings, rootProjectPath, disk>>

\* the error is swallowed and the run goes on
logAndContinue(s) == s

\* an exception nobody catches ends the process: no callback runs after it
throwUncaught(s) == [s EXCEPT !.status = "crashed"]

\* the visit is not counted
noRegister(level) == level

\* recursiveLevel++
register(level) == level + 1

\* the counter is left as it is
noDeregister(level) == level

\* recursiveLevel--
deregister(level) == level - 1

\* recursiveLevel === 0
reportDue(level) == level = 0

\* path.relative(rootProjectPath, packagePath), for a path under the root
relative(from, to) == SubSeq(to, Len(from) + 1, Len(to))

\* every value counts as no license
alwaysFalsy(x) == TRUE

\* !m.pkgLicense
falsy(x) == x \in {"undefined", ""}

\* modules.filter(pred).length
RECURSIVE countWhere(_, _, _)
countWhere(mods, i, sentinelOnly) ==
  IF i > Len(mods) THEN 0
  ELSE (IF /\ mods[i].license = unlicense
           /\ (sentinelOnly \/ falsy(mods[i].pkgLicense))
        THEN 1 ELSE 0) + countWhere(mods, i + 1, sentinelOnly)

\* the report block
aggregate(s) ==
  [s EXCEPT !.reports =
     Append(@, [total |-> Len(s.modules),
                improperlyLicensed |-> countWhere(s.modules, 1, TRUE),
                unlicensed |-> countWhere(s.modules, 1, FALSE),
                header |-> ManifestAt(rootProjectPath).name,
                sections |-> s.modules])]

\* the record is not kept
dropModule(mods, visit, license) == mods

\* modules.push({...})
pushModule(mods, visit, license) ==
  Append(mods, [name |-> visit.package.name,
                version |-> visit.package.version,
                url |-> <<"https://www.npmjs.com/package/", visit.package.name>>,
                localPath |-> relative(rootProjectPath, visit.packagePath),
                pkgLicense |-> visit.package.license,
                license |-> license])

\* the callback exploreDependencies passes to findLicenseText
onLicense(s, v, license) ==
  LET s1 == [s EXCEPT !.modules = pushModule(@, s.visits[v], license),
                      !.recursiveLevel = deregister(@)]
  IN  IF reportDue(s1.recursiveLevel) THEN aggregate(s1) ELSE s1

----------------------------------------------------------------------------
(* findLicenseText: async.reduceRight runs the iterator on the candidates  *)
(* from the last to the first, one at a time.  The fold of a visit is      *)
(*   i        : the candidate the iterator is at (0: past the first),      *)
(*   awaiting : "exists" or "readFile" (the pending fs call), "final" (the *)
(*              final callback is due, within the same step) or "none",    *)
(*   license  : the memo,                                                  *)
(*   err      : the error given to the iterator's callback, "" for null.   *)

\* the iterator from candidate i on, up to the fs.exists it issues
RECURSIVE iterate(_, _, _)
iterate(projectPath, i, license) ==
  IF i = 0
  THEN [i |-> 0, awaiting |-> "final", license |-> license, err |-> ""]
  ELSE IF license # unlicense /\ isAReadme(possibleLicensePaths(projectPath)[i])
  THEN iterate(projectPath, i - 1, license)
  ELSE [i |-> i, awaiting |-> "exists", license |-> license, err |-> ""]

\* the fs.exists callback of the iterator
existsCallback(projectPath, f) ==
  IF FileAt(possibleLicensePaths(projectPath)[f.i]).st = "absent"
  THEN iterate(projectPath, f.i - 1, f.license)
  ELSE [f EXCEPT !.awaiting = "readFile"]

\* what the two builds do with the text they read
normalise(text) ==
  IF build = "part_000" THEN convertNewLines(text, desiredLineEndings) ELSE text

\* a failed readFile: part_000 calls callback(err, license), which ends the
\* fold with the error; index.js evaluates (err, license) and returns
readError(f) ==
  IF build = "part_000"
  THEN [f EXCEPT !.awaiting = "final", !.err = "Error: EISDIR"]
  ELSE [f EXCEPT !.awaiting = "none"]

\* the fs.readFile callback of the iterator
readCallback(projectPath, f) ==
  LET licensePath == possibleLicensePaths(projectPath)[f.i]
      file == FileAt(licensePath)
      at == licenseExcerptIndex(file.text)
  IN  IF file.st # "ok" THEN readError(f)
      ELSE IF isAReadme(licensePath)
      THEN IF at > 0
           THEN iterate(projectPath, f.i - 1,
                        <<"FROM README:", "\n">> \o normalise(substringFrom(file.text, at)))
           ELSE iterate(projectPath, f.i - 1, f.license)
      ELSE iterate(projectPath, f.i - 1, normalise(file.text))

\* the final callback of async.reduceRight: what findLicenseText delivers
delivered(f) ==
  IF f.err # "" THEN <<"ERROR FINDING LICENSE FILE ", f.err>> ELSE f.license

\* store the fold of visit v; when its final callback is due, run it
settle(s, v, f) ==
  IF f.awaiting = "final"
  THEN onLicense([s EXCEPT !.visits[v].fold = [f EXCEPT !.awaiting = "none"]],
                 v, delivered(f))
  ELSE [s EXCEPT !.visits[v].fold = f]

\* findLicenseText(projectPath, callback) for visit v
findLicenseText(s, v) ==
  settle(s, v, iterate(s.visits[v].packagePath, Len(candidateNames), unlicense))

----------------------------------------------------------------------------
(* exploreDependencies.                                                    *)

NewVisit(packagePath) ==
  [packagePath |-> packagePath,
   package |-> ManifestAt(packagePath),
   nm |-> "exists",
   files |-> <<>>,
   statPending |-> {},
   accessPending |-> {},
   results |-> <<>>,
   isModuleDir |-> <<>>,
   fold |-> [i |-> Len(candidateNames), awaiting |-> "none",
             license |-> unlicense, err |-> ""]]

\* require() throws on a missing or unparseable package.json; otherwise the
\* visit registers, issues fs.exists on node_modules and starts the fold
exploreDependencies(s, packagePath) ==
  IF ManifestAt(packagePath).st # "ok" THEN throwUncaught(s)
  ELSE LET s1 == [s EXCEPT !.visits = Append(@, NewVisit(packagePath)),
                           !.recursiveLevel = register(@)]
       IN  findLicenseText(s1, Len(s1.visits))

\* directories.forEach(exploreDependencies): a throw ends the loop
RECURSIVE forEachExplore(_, _, _)
forEachExplore(s, directories, k) ==
  IF k > Len(directories) \/ s.status = "crashed" THEN s
  ELSE forEachExplore(exploreDependencies(s, directories[k]), directories, k + 1)

\* the directories async.filter delivers: the files whose isPackage callback
\* got a true value, in the order of files
RECURSIVE kept(_, _, _)
kept(files, results, k) ==
  IF k > Len(files) THEN <<>>
  ELSE (IF results[k] THEN <<files[k]>> ELSE <<>>) \o kept(files, results, k + 1)

\* the callback given to async.filter
onFiltered(s, v) ==
  LET visit == s.visits[v]
  IN  forEachExplore([s EXCEPT !.visits[v].nm = "idle"],
                     kept(visit.files, visit.results, 1), 1)

\* the value isPackage gives its callback: callback(isModuleDir) runs inside
\* the fs.stat callback, where isModuleDir is still its initial false; the
\* fs.access callback that assigns it runs later
isPackage(dirPath) ==
  LET isModuleDir == FALSE
  IN  isModuleDir

----------------------------------------------------------------------------
(* The callbacks.                                                          *)

\* the top level of the script: rootProjectPackage = require(...), then
\* exploreDependencies(rootProjectPath)
Main ==
  /\ status = "init"
  /\ Commit(IF ManifestAt(rootProjectPath).st # "ok"
            THEN throwUncaught(Cur)
            ELSE exploreDependencies([Cur EXCEPT !.status = "running"],
                                     rootProjectPath))

\* the callback of fs.exists(nodeModulesPath)
NodeModulesExists(v) ==
  /\ status = "running"
  /\ visits[v].nm = "exists"
  /\ Commit([Cur EXCEPT !.visits[v].nm =
               IF NodeModulesOf(visits[v].packagePath).st = "none"
               THEN "idle" ELSE "readdir"])

\* the callback of fs.readdir(nodeModulesPath): throw err, or map the names
\* to paths and start async.filter, which calls isPackage on every file and,
\* when there is none, delivers [] at once
ReaddirDone(v) ==
  /\ status = "running"
  /\ visits[v].nm = "readdir"
  /\ LET dir == NodeModulesOf(visits[v].packagePath)
         nodeModulesPath == Append(visits[v].packagePath, "node_modules")
         files == [k \in 1..Len(dir.list) |-> Append(nodeModulesPath, dir.list[k])]
         s1 == [Cur EXCEPT !.visits[v].nm = "filter",
                           !.visits[v].files = files,
                           !.visits[v].statPending = 1..Len(files),
                           !.visits[v].results = [k \in 1..Len(files) |-> FALSE],
                           !.visits[v].isModuleDir = [k \in 1..Len(files) |-> FALSE]]
     IN  Commit(IF dir.st = "unlistable" THEN throwUncaught(Cur)
                ELSE IF Len(files) = 0 THEN onFiltered(s1, v)
                ELSE s1)

\* the callback of fs.stat(dirPath) in isPackage, giving truth to the
\* callback of async.filter: for a directory fs.access is issued first; the
\* last of a visit's stat callbacks makes async.filter deliver
statCallback(s, v, k, truth) ==
  LET visit == s.visits[v]
      s1 == [s EXCEPT !.visits[v].statPending = @ \ {k},
                      !.visits[v].results[k] = truth,
                      !.visits[v].accessPending =
                         IF statOf(visit.files[k]) = "dir" THEN @ \cup {k} ELSE @]
  IN  IF s1.visits[v].statPending = {} THEN onFiltered(s1, v) ELSE s1

StatDone(v, k) ==
  /\ status = "running"
  /\ visits[v].nm = "filter"
  /\ k \in visits[v].statPending
  /\ Commit(statCallback(Cur, v, k, isPackage(visits[v].files[k])))

\* the callback of fs.access(packageManifest): assigns isModuleDir, which
\* nothing reads any more
AccessDone(v, k) ==
  /\ status = "running"
  /\ k \in visits[v].accessPending
  /\ Commit([Cur EXCEPT !.visits[v].accessPending = @ \ {k},
                        !.visits[v].isModuleDir[k] = accessible(visits[v].files[k])])

\* the callback of fs.exists(licensePath)
LicenseExists(v) ==
  /\ status = "running"
  /\ visits[v].fold.awaiting = "exists"
  /\ Commit(settle(Cur, v, existsCallback(visits[v].packagePath, visits[v].fold)))

\* the callback of fs.readFile(licensePath)
LicenseRead(v) ==
  /\ status = "running"
  /\ visits[v].fold.awaiting = "readFile"
  /\ Commit(settle(Cur, v, readCallback(visits[v].packagePath, visits[v].fold)))

\* the stat callback with the answer of isPackage left open
StatDoneAny(v, k) ==
  /\ status = "running"
  /\ visits[v].nm = "filter"
  /\ k \in visits[v].statPending
  /\ \E truth \in BOOLEAN : Commit(statCallback(Cur, v, k, truth))

----------------------------------------------------------------------------
(* The disks a run starts on.                                              *)

AppPath == <<"home", "app">>

\* what readdir may return, in its order
EntryNames == <<".bin", "a", "b", "notes.txt">>

RECURSIVE pick(_, _, _)
pick(names, chosen, k) ==
  IF k > Len(names) THEN <<>>
  ELSE (IF k \in chosen THEN <<names[k]>> ELSE <<>>) \o pick(names, chosen, k + 1)

Listings ==
  {pick(EntryNames, c, 1) :
     c \in {c \in SUBSET (1..Len(EntryNames)) : Cardinality(c) <= MaxEntries}}

\* the package a: declares MIT and ships a LICENSE file
PackageA(nm) ==
  [manifest |-> ManifestOf("a", "MIT"),
   files |-> [NoFiles EXCEPT !["LICENSE"] = FileOf(<<"MIT License">>)],
   nm |-> nm]

\* the package b: declares nothing and ships no candidate file
PackageB ==
  [manifest |-> ManifestOf("b", "undefined"), files |-> NoFiles, nm |-> NoNodeModules]

\* a directory that is no package, as node_modules/.bin
PlainDir == [manifest |-> NoManifest, files |-> NoFiles, nm |-> NoNodeModules]

InSeq(x, seq) == \E k \in 1..Len(seq) : seq[k] = x

\* the disk of a tree: the root with its listing, under it a (with the
\* listing of its own node_modules), b, .bin and the file notes.txt
TreeDisk(root, rootList, aNm) ==
  LET nmPath == Append(AppPath, "node_modules")
      aPath == Append(nmPath, "a")
      aNmPath == Append(aPath, "node_modules")
      top == {Append(nmPath, n) : n \in {n \in {".bin", "a", "b"} : InSeq(n, rootList)}}
      nested == IF InSeq("a", rootList)
                THEN {Append(aNmPath, n) : n \in {n \in {"a", "b"} : InSeq(n, aNm.list)}}
                ELSE {}
      all == {AppPath} \cup top \cup nested
      last(p) == p[Len(p)]
  IN  [dirs |-> [p \in all |->
                   IF p = AppPath THEN root
                   ELSE IF last(p) = ".bin" THEN PlainDir
                   ELSE IF last(p) = "b" THEN PackageB
                   ELSE IF p = aPath THEN PackageA(aNm)
                   ELSE PackageA(NoNodeModules)],
       plain |-> IF InSeq("notes.txt", rootList)
                 THEN {Append(nmPath, "notes.txt")} ELSE {}]

RootNodeModules == {NoNodeModules, Unlistable} \cup {Listing(l) : l \in Listings}

NestedNodeModules == {NoNodeModules, Listing(<<"a">>), Listing(<<"b">>)}

RootManifests == {ManifestOf("app", "MIT"), NoManifest}

RootFiles == {NoFiles, [NoFiles EXCEPT !["LICENSE"] = Unreadable]}

\* a has a node_modules of its own where it is the only entry of the root's
TreeShapes ==
  {<<nm, aNm>> \in RootNodeModules \X NestedNodeModules :
     aNm # NoNodeModules => nm.list = <<"a">>}

TreeDisks ==
  {TreeDisk([manifest |-> m, files |-> f, nm |-> t[1]], t[1].list, t[2]) :
     m \in RootManifests, f \in RootFiles, t \in TreeShapes}

\* the texts of candidate files on a license-resolution disk
Texts ==
  { <<"MIT License", "\r", "\n", "Permission is granted">>,
    <<"#", "#", " ", "License", "\n", "Apache-2.0">>,
    <<"intro", "\n", "#", "#", " ", "License", "\n", "Apache-2.0">>,
    <<"\n", "license", " ", "\n", "ISC">>,
    <<"intro", "\n", "usage">> }

FileStates == {Unreadable} \cup {FileOf(t) : t \in Texts}

CandidateSet == {candidateNames[i] : i \in 1..Len(candidateNames)}

\* the candidate files of a package with at most MaxFiles of them present
FileSets ==
  UNION {{[n \in CandidateSet |-> IF n \in present THEN g[n] ELSE Absent] :
            g \in [present -> FileStates]} :
         present \in {c \in SUBSET CandidateSet : Cardinality(c) <= MaxFiles}}

\* where the single package of a license-resolution disk lies
ProjectPaths == {AppPath, <<"home", "readme-x">>, <<"readme-x">>}

LicenseDisk(path, files) ==
  [dirs |-> [p \in {path} |->
               [manifest |-> ManifestOf("app", "MIT"), files |-> files,
                nm |-> NoNodeModules]],
   plain |-> {}]

Builds == {"index.js", "part_000"}

\* index.js has no line-ending option
LineEndings(b) == IF b = "part_000" THEN {"lf", "crlf"} ELSE {"lf"}

InitProgram ==
  /\ status = "init"
  /\ visits = <<>>
  /\ modules = <<>>
  /\ recursiveLevel = 0
  /\ reports = <<>>

\* a run on a dependency tree
InitTree ==
  /\ build \in Builds
  /\ desiredLineEndings = "lf"
  /\ rootProjectPath = AppPath
  /\ disk \in TreeDisks
  /\ InitProgram

\* a run on a single package with candidate files
InitLicense ==
  /\ build \in Builds
  /\ desiredLineEndings \in LineEndings(build)
  /\ rootProjectPath \in ProjectPaths
  /\ disk \in {LicenseDisk(rootProjectPath, f) : f \in FileSets}
  /\ InitProgram

Init == InitTree \/ InitLicense

Next ==
  \/ Main
  \/ \E v \in 1..Len(visits) : NodeModulesExists(v)
  \/ \E v \in 1..Len(visits) : ReaddirDone(v)
  \/ \E v \in 1..Len(visits) : \E k \in 1..Len(visits[v].files) : StatDone(v, k)
  \/ \E v \in 1..Len(visits) : \E k \in 1..Len(visits[v].files) : AccessDone(v, k)
  \/ \E v \in 1..Len(visits) : LicenseExists(v)
  \/ \E v \in 1..Len(visits) : LicenseRead(v)

\* the program
Spec == Init /\ [][Next]_vars

\* the program on the dependency trees, the event loop running a pending
\* callback whenever there is one
SpecFair == InitTree /\ [][Next]_vars /\ WF_vars(Next)

NextWalker ==
  \/ Main
  \/ \E v \in 1..Len(visits) : NodeModulesExists(v)
  \/ \E v \in 1..Len(visits) : ReaddirDone(v)
  \/ \E v \in 1..Len(visits) : \E k \in 1..Len(visits[v].files) : StatDoneAny(v, k)
  \/ \E v \in 1..Len(visits) : \E k \in 1..Len(visits[v].files) : AccessDone(v, k)
  \/ \E v \in 1..Len(visits) : LicenseExists(v)
  \/ \E v \in 1..Len(visits) : LicenseRead(v)

\* the walker for every answer of the package filter: each isPackage callback
\* gets either value, so every behaviour of the program on a tree is one of
\* these
SpecWalker == InitTree /\ [][NextWalker]_vars

----------------------------------------------------------------------------
(* What the claims speak of.                                               *)

\* no callback is pending: the process ends without an uncaught exception
Quiescent ==
  /\ status = "running"
  /\ \A v \in 1..Len(visits) :
       /\ visits[v].nm = "idle"
       /\ visits[v].accessPending = {}
       /\ visits[v].fold.awaiting = "none"

\* p is reached from the root through node_modules nesting
RECURSIVE Nested(_)
Nested(p) ==
  \/ p = rootProjectPath
  \/ /\ Len(p) >= Len(rootProjectPath) + 2
     /\ p[Len(p) - 1] = "node_modules"
     /\ LET q == SubSeq(p, 1, Len(p) - 2)
        IN  /\ IsDir(q)
            /\ accessible(q)
            /\ NodeModulesOf(q).st = "ok"
            /\ InSeq(p[Len(p)], NodeModulesOf(q).list)
            /\ Nested(q)

\* the directories holding a package.json that are reached from the root
PackageDirs == {p \in DOMAIN disk.dirs : accessible(p) /\ Nested(p)}

\* the records of modules whose localPath is that of p
RecordsOf(p) ==
  {i \in 1..Len(modules) : modules[i].localPath = relative(rootProjectPath, p)}

\* the directory a record is about
DirOf(record) == rootProjectPath \o record.localPath

DedicatedNames == {candidateNames[i] : i \in 1..7}

ReadmeNames == CandidateSet \ DedicatedNames

Present(p, names) == {n \in names : disk.dirs[p].files[n].st # "absent"}

AllReadable(p) == \A n \in CandidateSet : disk.dirs[p].files[n].st # "unreadable"

\* the content as the build at hand is to return it: index.js has no
\* line-ending setting to normalise to
Normalised(text) == normalise(text)

\* the directories async.filter has delivered for visit v
Delivered(v) == kept(visits[v].files, visits[v].results, 1)

----------------------------------------------------------------------------
(* C1: the report block runs once per run, never a second time, and when   *)
(* it runs the size of modules is the number of package directories        *)
(* reached from the root, the root included.                               *)
AggregatorOnceOverAllPackages ==
  /\ Len(reports) <= 1
  /\ \A i \in 1..Len(reports) : reports[i].total = Cardinality(PackageDirs)

(* C2: recursiveLevel is not zero, after the root has registered, while a  *)
(* visit still has its node_modules existence check, listing or filter     *)
(* pending.                                                                *)
NoZeroWhileWalkPending ==
  (status = "running" /\ recursiveLevel = 0) =>
     \A v \in 1..Len(visits) : visits[v].nm = "idle"

(* C3: when the run has finished (nothing is pending and the report is     *)
(* out), modules holds exactly one record for every package directory      *)
(* reached from the root, with its path relative to the root as localPath, *)
(* and no other record.                                                    *)
OneRecordPerPackageDir ==
  (Quiescent /\ reports # <<>>) =>
    /\ \A p \in PackageDirs : Cardinality(RecordsOf(p)) = 1
    /\ Len(modules) = Cardinality(PackageDirs)

(* C4: isPackage gives its callback true exactly for a directory that      *)
(* holds an accessible package.json.                                       *)
IsPackageTellsPackages ==
  \A v \in 1..Len(visits) :
    \A k \in 1..Len(visits[v].files) :
      (visits[v].nm \in {"filter", "idle"} /\ ~(k \in visits[v].statPending)) =>
         (visits[v].results[k] <=>
            (statOf(visits[v].files[k]) = "dir" /\ accessible(visits[v].files[k])))

(* C5: for a package with a dedicated candidate present and every          *)
(* candidate readable, findLicenseText returns the normalised content of   *)
(* the first present dedicated candidate, whatever READMEs there are.      *)
DedicatedFileWins ==
  \A r \in 1..Len(modules) :
    LET p == DirOf(modules[r])
        first == CHOOSE i \in 1..7 :
                   /\ candidateNames[i] \in Present(p, DedicatedNames)
                   /\ \A j \in 1..(i - 1) :
                        ~(candidateNames[j] \in Present(p, DedicatedNames))
    IN  (AllReadable(p) /\ Present(p, DedicatedNames) # {}) =>
           modules[r].license =
             Normalised(disk.dirs[p].files[candidateNames[first]].text)

\* s starts a line of text
LineStart(text, s) == s = 1 \/ text[s - 1] = "\n"

\* a license heading line starts at s: markers, the word, blanks, the end
\* of the line
HeadingAt(text, s) ==
  /\ LineStart(text, s)
  /\ \E j \in s..Len(text) :
       /\ text[j] \in LicenseWords
       /\ \A m \in s..(j - 1) : text[m] \in Markers
       /\ \E e \in j..Len(text) :
            /\ e = Len(text) \/ text[e + 1] = "\n"
            /\ \A m \in (j + 1)..e : text[m] \in Blanks

Headings(text) == {s \in 1..Len(text) : HeadingAt(text, s)}

FirstHeading(text) == CHOOSE s \in Headings(text) : \A t \in Headings(text) : s <= t

(* C6: for a package with no dedicated candidate and one README candidate, *)
(* readable and holding a license heading line at any line, the first one  *)
(* included, findLicenseText returns "FROM README:\n" followed by the      *)
(* content from the first character of that line to the end.               *)
ReadmeExcerptFromHeading ==
  \A r \in 1..Len(modules) :
    LET p == DirOf(modules[r])
        readmes == Present(p, ReadmeNames)
        text == disk.dirs[p].files[CHOOSE n \in readmes : TRUE].text
    IN  (/\ AllReadable(p)
         /\ Present(p, DedicatedNames) = {}
         /\ Cardinality(readmes) = 1
         /\ Headings(text) # {}) =>
           modules[r].license =
             <<"FROM README:", "\n">> \o
               Normalised(substringFrom(text, FirstHeading(text)))

\* the fold of findLicenseText with every unreadable candidate taken as absent
RECURSIVE foldReadable(_, _, _)
foldReadable(p, i, license) ==
  LET licensePath == possibleLicensePaths(p)[i]
      file == FileAt(licensePath)
      at == licenseExcerptIndex(file.text)
  IN  IF i = 0 THEN license
      ELSE IF license # unlicense /\ isAReadme(licensePath)
      THEN foldReadable(p, i - 1, license)
      ELSE IF file.st # "ok" THEN foldReadable(p, i - 1, license)
      ELSE IF isAReadme(licensePath)
      THEN foldReadable(p, i - 1,
             IF at > 0
             THEN <<"FROM README:", "\n">> \o Normalised(substringFrom(file.text, at))
             ELSE license)
      ELSE foldReadable(p, i - 1, Normalised(file.text))

(* C7: when a candidate file cannot be read, the fold goes on as if the    *)
(* file were absent: at the end of the run the visit has appended its      *)
(* record, with the text the readable candidates give.                     *)
ReadFailureDegrades ==
  Quiescent =>
    \A v \in 1..Len(visits) :
      LET p == visits[v].packagePath
      IN  ~AllReadable(p) =>
            \E r \in RecordsOf(p) :
              modules[r].license = foldReadable(p, Len(candidateNames), unlicense)

(* C8: every visit appends one record by the end of the run and never more *)
(* than one; records are per visit, not per name and version.              *)
OneRecordPerVisit ==
  /\ \A v \in 1..Len(visits) : Cardinality(RecordsOf(visits[v].packagePath)) <= 1
  /\ Quiescent =>
       /\ \A v \in 1..Len(visits) : Cardinality(RecordsOf(visits[v].packagePath)) = 1
       /\ Len(modules) = Len(visits)

\* nothing of the run is past a fatal error: no visit is past a listing that
\* fails, no visit runs on a directory whose package.json does not load, and
\* where a delivered directory's package.json does not load the process is
\* down and no directory delivered after it is visited
NothingPastAFatalError ==
  /\ (status # "init" /\ ManifestAt(rootProjectPath).st # "ok") =>
        (status = "crashed" /\ visits = <<>>)
  /\ \A v \in 1..Len(visits) :
       /\ visits[v].package.st = "ok"
       /\ ManifestAt(visits[v].packagePath).st = "ok"
       /\ visits[v].nm \in {"filter", "idle"} =>
            NodeModulesOf(visits[v].packagePath) # Unlistable
       /\ visits[v].nm = "idle" =>
            \A k \in 1..Len(Delivered(v)) :
              ManifestAt(Delivered(v)[k]).st # "ok" =>
                /\ status = "crashed"
                /\ \A j \in (k + 1)..Len(Delivered(v)) :
                     \A w \in 1..Len(visits) : visits[w].packagePath # Delivered(v)[j]

\* once the process is down, no visit starts, no record is appended and the
\* report block does not run
DownStaysDown ==
  status = "crashed" =>
    /\ status' = "crashed"
    /\ visits' = visits
    /\ modules' = modules
    /\ recursiveLevel' = recursiveLevel
    /\ reports' = reports

(* C9: a failing listing of node_modules, or a package.json that does not  *)
(* load in a directory given to exploreDependencies, aborts the run: after *)
(* it no visit starts, no record is appended, the report block never runs. *)
FatalErrorsAbort == []NothingPastAFatalError /\ [][DownStaysDown]_vars

\* a delivered directory without a loadable package.json has brought the
\* process down while a sibling delivered before it and the root still had
\* work pending
FatalErrorReached ==
  /\ status = "crashed"
  /\ Len(visits) >= 2
  /\ \E v \in 1..Len(visits) : visits[v].fold.awaiting = "exists"
  /\ \E v \in 1..Len(visits) :
       /\ visits[v].nm = "idle"
       /\ \E k \in 1..Len(Delivered(v)) : ManifestAt(Delivered(v)[k]).st # "ok"

(* C10: a root without node_modules ends the run with one record, the      *)
(* root's with the empty localPath, and one report over that record.       *)
RootAloneReported ==
  (Quiescent /\ NodeModulesOf(rootProjectPath).st = "none") =>
     /\ Len(modules) = 1
     /\ modules[1].localPath = <<>>
     /\ Len(reports) = 1
     /\ reports[1].total = 1
     /\ reports[1].sections = modules

(* C11: with every read succeeding, findLicenseText returns the sentinel   *)
(* "NO LICENSE FILE" if and only if no dedicated candidate exists and no   *)
(* existing README candidate holds a license heading line.                 *)
SentinelIffNothingFound ==
  \A r \in 1..Len(modules) :
    LET p == DirOf(modules[r])
    IN  AllReadable(p) =>
          (modules[r].license = unlicense <=>
             /\ Present(p, DedicatedNames) = {}
             /\ \A n \in Present(p, ReadmeNames) :
                  Headings(disk.dirs[p].files[n].text) = {})

\* the records of a report that hold the sentinel as their license text
SentinelRecords(report) ==
  {i \in 1..Len(report.sections) : report.sections[i].license = unlicense}

\* those of them whose package.json declares no license
UndeclaredRecords(report) ==
  {i \in SentinelRecords(report) :
     report.sections[i].pkgLicense \in {"undefined", ""}}

(* C12: in every report the improperly-licensed count is the number of     *)
(* records whose license text is the sentinel, and the unlicensed count is *)
(* the number of those that also declare no license, so unlicensed never   *)
(* exceeds improperly-licensed.                                            *)
ReportCountsClassify ==
  \A i \in 1..Len(reports) :
    /\ reports[i].improperlyLicensed = Cardinality(SentinelRecords(reports[i]))
    /\ reports[i].unlicensed = Cardinality(UndeclaredRecords(reports[i]))
    /\ reports[i].unlicensed <= reports[i].improperlyLicensed
    /\ reports[i].total = Len(reports[i].sections)

\* a report over a record with the sentinel and a declared license, one
\* with the sentinel and none, and one with a license text
ReportWithEveryClass ==
  \E i \in 1..Len(reports) :
    /\ reports[i].improperlyLicensed = 2
    /\ reports[i].unlicensed = 1
    /\ \E j \in 1..Len(reports[i].sections) :
         /\ reports[i].sections[j].license = unlicense
         /\ reports[i].sections[j].pkgLicense = "MIT"
    /\ \E j \in 1..Len(reports[i].sections) :
         /\ reports[i].sections[j].license = unlicense
         /\ reports[i].sections[j].pkgLicense = "undefined"
    /\ \E j \in 1..Len(reports[i].sections) :
         reports[i].sections[j].license # unlicense

\* app without a license file, its node_modules holding a (LICENSE, MIT
\* declared), whose node_modules holds b (no license file, none declared)
ExampleTree ==
  disk = TreeDisk([manifest |-> ManifestOf("app", "MIT"), files |-> NoFiles,
                   nm |-> Listing(<<"a">>)],
                  <<"a">>, Listing(<<"b">>))

(* C13: on the tree app -> a -> b, under every order of the callbacks, the *)
(* one report is made over 3 records, 2 of them improperly licensed (app   *)
(* and b) and 1 unlicensed (b).                                            *)
ExampleTreeReport ==
  ExampleTree =>
    /\ Len(reports) <= 1
    /\ Quiescent => Len(reports) = 1
    /\ \A i \in 1..Len(reports) :
         /\ reports[i].total = 3
         /\ reports[i].improperlyLicensed = 2
         /\ reports[i].unlicensed = 1

\* the run is over and complete: every started visit has appended its
\* record and decremented the counter, and the report has been made
RunComplete ==
  /\ Quiescent
  /\ \A v \in 1..Len(visits) : RecordsOf(visits[v].packagePath) # {}
  /\ Len(modules) = Len(visits)
  /\ recursiveLevel = 0
  /\ reports # <<>>

(* C14: with pending callbacks run fairly, every run without a fatal error *)
(* comes to its end, failed candidate reads included: every started visit  *)
(* appends its record and decrements the counter, and the report is made.  *)
EveryRunCompletes == <>(status = "crashed" \/ RunComplete)

(* C15: the root visit is registered before any asynchronous operation of  *)
(* the run is pending: from the start of the root visit until the root's   *)
(* record is appended the counter is at least 1 and no report is made,     *)
(* also on a tree without dependencies.                                    *)
RootRegisteredFirst ==
  /\ status = "init" => (visits = <<>> /\ recursiveLevel = 0 /\ reports = <<>>)
  /\ (visits # <<>> /\ RecordsOf(rootProjectPath) = {}) =>
        /\ visits[1].packagePath = rootProjectPath
        /\ recursiveLevel >= 1
        /\ reports = <<>>

\* a root without node_modules whose existence check has been answered
\* while its license resolution is still pending
RootAloneStillCounted ==
  /\ status = "running"
  /\ NodeModulesOf(rootProjectPath) = NoNodeModules
  /\ Len(visits) = 1
  /\ visits[1].nm = "idle"
  /\ visits[1].fold.awaiting = "readFile"
  /\ modules = <<>>
  /\ recursiveLevel = 1

\* every record belongs to a visit whose license resolution is over, and
\* holds what that resolution delivered
RecordedAfterResolution ==
  \A r \in 1..Len(modules) :
    \E v \in 1..Len(visits) :
      /\ relative(rootProjectPath, visits[v].packagePath) = modules[r].localPath
      /\ visits[v].fold.awaiting = "none"
      /\ modules[r].license = delivered(visits[v].fold)

\* the step that ends a visit's license resolution appends the one record,
\* decrements the counter, tests it for zero and makes the report; no other
\* step touches the counter downwards, modules or the reports
AppendDecrementTestInOneStep ==
  /\ modules' # modules =>
       /\ modules' = Append(modules, modules'[Len(modules')])
       /\ recursiveLevel' = recursiveLevel - 1
       /\ \E v \in 1..Len(visits) :
            /\ visits[v].fold.awaiting \in {"exists", "readFile"}
            /\ visits'[v].fold.awaiting = "none"
            /\ modules'[Len(modules')].localPath =
                 relative(rootProjectPath, visits[v].packagePath)
            /\ modules'[Len(modules')].license = delivered(visits'[v].fold)
       /\ reports' # reports <=> recursiveLevel' = 0
       /\ reports' # reports =>
            /\ reports' = Append(reports, reports'[Len(reports')])
            /\ reports'[Len(reports')].sections = modules'
  /\ modules' = modules =>
       /\ reports' = reports
       /\ recursiveLevel' >= recursiveLevel

(* C16: within a visit the license resolution completes, then the record   *)
(* is appended, then the counter is decremented, then tested for zero; the *)
(* append, the decrement, the test and the report are one callback step,   *)
(* with no other callback in between.                                      *)
VisitOrderIsFixed == []RecordedAfterResolution /\ [][AppendDecrementTestInOneStep]_vars

\* two visits have appended their records and the report over both is out
TwoVisitsReported ==
  /\ Len(modules) >= 2
  /\ recursiveLevel = 0
  /\ reports # <<>>
  /\ reports[Len(reports)].sections = modules

\* the position of a candidate name in the list, 1 the highest priority
PriorityOf(n) == CHOOSE i \in 1..Len(candidateNames) : candidateNames[i] = n

\* the README candidates of p that exist and hold a license heading line
ReadmesWithHeading(p) ==
  {n \in Present(p, ReadmeNames) : Headings(disk.dirs[p].files[n].text) # {}}

\* the excerpts of a text: "FROM README:\n" and the text from some position on
ExcerptsOf(text) ==
  {<<"FROM README:", "\n">> \o Normalised(substringFrom(text, i)) : i \in 1..Len(text)}

(* C17: when no dedicated file exists and several README candidates hold a *)
(* license heading line, the excerpt returned comes from the one highest   *)
(* in the list: Readme.md before README.md before README.markdown.         *)
HighestReadmeWins ==
  \A r \in 1..Len(modules) :
    LET p == DirOf(modules[r])
        with == ReadmesWithHeading(p)
        first == CHOOSE n \in with : \A m \in with : PriorityOf(n) <= PriorityOf(m)
    IN  (/\ AllReadable(p)
         /\ Present(p, DedicatedNames) = {}
         /\ Cardinality(with) >= 2) =>
           modules[r].license \in ExcerptsOf(disk.dirs[p].files[first].text)

\* the counter is the number of visits started less the number of records
CounterIsVisitsLessRecords ==
  /\ recursiveLevel = Len(visits) - Len(modules)
  /\ recursiveLevel >= 0

\* when the report block runs, every visit started so far has its record
FiringSeesEveryStartedVisit ==
  reports' # reports => Len(modules') = Len(visits')

(* C18: at every state recursiveLevel is the number of visits started      *)
(* (calls of exploreDependencies past the manifest load) less the number   *)
(* of records appended, never negative; so whenever the report block runs  *)
(* the records are as many as the visits started so far.                   *)
CounterTracksVisits == []CounterIsVisitsLessRecords /\ [][FiringSeesEveryStartedVisit]_vars

\* a report has been made and visits started after it are counted
CountedAfterAReport ==
  /\ reports # <<>>
  /\ Len(visits) >= 3
  /\ Len(modules) >= 1
  /\ recursiveLevel >= 2

\* the one candidate file of p, where p holds exactly one
OnlyCandidate(p) == CHOOSE n \in Present(p, CandidateSet) : TRUE

(* C19: a candidate is README-class exactly when its file name is          *)
(* Readme.md, README.md or README.markdown, whatever the path of the       *)
(* package directory: a package's only candidate, readable, is taken whole *)
(* when its name is a dedicated one, and is mined for a heading line (the  *)
(* sentinel when it has none) when its name is a README one.               *)
ReadmeClassByFileName ==
  \A r \in 1..Len(modules) :
    LET p == DirOf(modules[r])
        n == OnlyCandidate(p)
        text == disk.dirs[p].files[n].text
    IN  (AllReadable(p) /\ Cardinality(Present(p, CandidateSet)) = 1) =>
          /\ n \in DedicatedNames => modules[r].license = Normalised(text)
          /\ (n \in ReadmeNames /\ Headings(text) = {}) =>
                modules[r].license = unlicense

====
